---- MODULE Spec2Model ----
(***************************************************************************)
(* Model of onnx_mxnet/backend.py: the MXNetBackend entry points           *)
(* (run_node, prepare, supports_device) and MXNetBackendRep.run.           *)
(*                                                                         *)
(* A numeric array is the record [shape, data, dtype]: shape is the tuple  *)
(* of its dimensions, data identifies its elements, dtype its element      *)
(* type.  The graph converter (import_onnx.GraphProto) and the execution   *)
(* engine (mx.mod.Module) are external: the converter is an uninterpreted  *)
(* function of what it is given, the engine either raises or produces a    *)
(* list of output arrays chosen nondeterministically.                      *)
(*                                                                         *)
(* Two specifications:                                                     *)
(*   SpecNode  run_node is a stateless class method; Init draws one call   *)
(*             (node, inputs) and the action RunNode applies the method.   *)
(*   Spec      the life cycle of a handle: Prepare, Run, SupportsDevice    *)
(*             called by the test infrastructure, Return taking the result.*)
(***************************************************************************)
EXTENDS Integers, Sequences, FiniteSets, TLC

VARIABLES pc, call, ret, rep, rep_model, from_onnx_calls, prepare_calls, run_calls

vars == <<pc, call, ret, rep, rep_model, from_onnx_calls, prepare_calls, run_calls>>

\* ---------------------------------------------------------------- bounds
MaxDim == 2
MaxRank == 4
MaxInputs == 2
MaxNames == 3
MaxPrepares == 2
MaxRuns == 2

\* ---------------------------------------------------------------- values
None == [kind |-> "None"]

\* No call is in progress.
NoCall == [fn |-> "none"]

Dims == 1..MaxDim

\* The code reads only the rank and the leading dimension of a shape, so
\* the shapes drawn are the empty one (a scalar) and every leading
\* dimension followed by r-1 trailing dimensions of size 2.
Repeat(t, n) == [i \in 1..n |-> t]

Shapes == {<<>>} \cup {<<d>> \o Repeat(2, r - 1) : d \in Dims, r \in 1..MaxRank}

Dtypes == {"float32", "int64"}

\* The arrays a caller supplies: position i of the sequence holds elements i.
Arrays(shapes, dtype) ==
  [i \in 1..Len(shapes) |-> [shape |-> shapes[i], data |-> i, dtype |-> dtype]]

InputSeqs ==
  {Arrays(ss, dt) : ss \in UNION {[1..n -> Shapes] : n \in 0..MaxInputs}, dt \in Dtypes}

\* run_node never reads an element type: its arrays are float32, as the
\* arrays of the ONNX node tests are.
NodeInputSeqs == {ins \in InputSeqs : \A i \in 1..Len(ins) : ins[i].dtype = "float32"}

\* run never reads a shape beyond passing it on: its arrays have rank <= 2.
RunInputSeqs == {ins \in InputSeqs : \A i \in 1..Len(ins) : Len(ins[i].shape) <= 2}

OpTypes == {"Add", "Slice", "Pad"}

NameList == <<"A", "B", "C", "D", "E">>

\* An ONNX node: its operator kind and the ordered names of its inputs.
Nodes ==
  {[op_type |-> op, input |-> SubSeq(NameList, 1, n)] : op \in OpTypes, n \in 0..MaxNames}

Models == {"m1", "m2"}

Devices == {"CPU", "GPU", "cpu"}

\* What get_outputs() may hold once a forward pass went through: no array,
\* one, or two.
OutputLists ==
  { <<>>,
    << [shape |-> <<1, 2>>, data |-> 0 - 1, dtype |-> "float32"] >>,
    << [shape |-> <<2>>, data |-> 0 - 1, dtype |-> "float32"],
       [shape |-> <<1>>, data |-> 0 - 2, dtype |-> "float32"] >> }

\* The calls run_node makes into the engine, in order: mx.mod.Module (61),
\* bind (62), init_params (65), mx.nd.array once per input (74/76),
\* forward (78), get_outputs and asnumpy (79).
NodeEnginePoints == {"module", "bind", "init_params", "forward", "outputs"}

\* The calls run makes into the engine, in order: mx.mod.Module (133),
\* bind (134), set_params (135), mx.nd.array (140), forward (140),
\* get_outputs and asnumpy (141).
RunEnginePoints == {"module", "bind", "set_params", "forward", "outputs"}

\* What the engine does in one call of the adapter: it raises in one of its
\* calls (raised names the call, index the mx.nd.array call among n), or
\* every call goes through and get_outputs() holds outputs.
EngineOutcomes(points, n) ==
  {[raised |-> at, index |-> 0, outputs |-> <<>>] : at \in points} \cup
  {[raised |-> "array", index |-> k, outputs |-> <<>>] : k \in 1..n} \cup
  {[raised |-> "no", index |-> 0, outputs |-> L] : L \in OutputLists}

\* ------------------------------------------------------------ converter
\* GraphProto.from_onnx(model.graph): the engine's graph and the parameters.
from_onnx(model) ==
  [sym |-> [graph_of |-> model], params |-> [params_of |-> model]]

\* GraphProto.run_node(node): the engine's graph of a single operator.
graph_run_node(node) == [graph_of |-> node]

\* ------------------------------------------------------- array plumbing
\* mx.nd.array(a): an engine tensor with a's shape and elements; the
\* engine's default element type is float32.
mx_nd_array(a) == [shape |-> a.shape, data |-> a.data, dtype |-> "float32"]

\* [val]: a one-element list holding val, seen as an array one rank higher.
list_of(val) == [shape |-> <<1>> \o val.shape, data |-> val.data, dtype |-> val.dtype]

\* np.asarray(a, dtype=np.float32)
np_asarray_float32(a) == [shape |-> a.shape, data |-> a.data, dtype |-> "float32"]

\* NDArray.asnumpy()
asnumpy(a) == a

IsSliceOrPad(op_type) == op_type = "Slice" \/ op_type = "Pad"

\* ------------------------------------------------------------- run_node
batch_size == 1

\* set(x.shape[0] for x in inputs)
first_dims(inputs) == {inputs[i].shape[1] : i \in 1..Len(inputs)}

\* Variant of needs_batch: the count of inputs compared with 2, not 1.
needs_batch_more_than_two(inputs, idx) ==
  /\ Len(inputs[idx].shape) < 4
  /\ Len(inputs) > 2
  /\ Cardinality(first_dims(inputs)) # 1

\* The condition of line 53, evaluated left to right.
needs_batch(inputs, idx) ==
  /\ Len(inputs[idx].shape) < 4
  /\ Len(inputs) > 1
  /\ Cardinality(first_dims(inputs)) # 1

\* IndexError raised by the adapter's own expressions of line 53:
\* inputs[idx] past the end of inputs, or x.shape[0] of a zero-rank x
\* (reached only when the first two conjuncts hold).
index_error(inputs, idx) ==
  \/ idx > Len(inputs)
  \/ /\ Len(inputs[idx].shape) < 4
     /\ Len(inputs) > 1
     /\ \E i \in 1..Len(inputs) : Len(inputs[i].shape) = 0

\* Variant of declared_shape: the batch dimension appended, not prepended.
declared_shape_batch_last(inputs, idx) ==
  IF needs_batch(inputs, idx)
    THEN inputs[idx].shape \o <<batch_size>>
    ELSE inputs[idx].shape

\* Variant of declared_shape: the batch dimension prepended unconditionally.
declared_shape_always_padded(inputs, idx) == <<batch_size>> \o inputs[idx].shape

\* The shape declared for the input at position idx (lines 53-58).
declared_shape(inputs, idx) ==
  IF needs_batch(inputs, idx)
    THEN <<batch_size>> \o inputs[idx].shape
    ELSE inputs[idx].shape

\* The loop of lines 51-58 from position idx on, acc the entries so far.
RECURSIVE build_data_shapes(_, _, _, _)
build_data_shapes(data_names, inputs, idx, acc) ==
  IF idx > Len(data_names) THEN [raised |-> FALSE, data_shapes |-> acc]
  ELSE IF index_error(inputs, idx) THEN [raised |-> TRUE, data_shapes |-> acc]
  ELSE build_data_shapes(data_names, inputs, idx + 1,
         Append(acc, <<data_names[idx], declared_shape(inputs, idx)>>))

\* Variant of forward_value: every operator's arrays are wrapped.
forward_value_always_wrapped(op_type, val) == mx_nd_array(list_of(val))

\* One entry of data_forward (lines 73-76).
forward_value(op_type, val) ==
  IF IsSliceOrPad(op_type) THEN mx_nd_array(val) ELSE mx_nd_array(list_of(val))

\* Variant of build_data_forward: the arrays in reverse order.
build_data_forward_reversed(op_type, inputs) ==
  [i \in 1..Len(inputs) |-> forward_value(op_type, inputs[Len(inputs) + 1 - i])]

\* data_forward (lines 69-76): one entry per supplied array, in order.
build_data_forward(op_type, inputs) ==
  [i \in 1..Len(inputs) |-> forward_value(op_type, inputs[i])]

\* Variant of node_return_value: every operator's output is put in a list.
node_return_value_always_list(op_type, result) ==
  [kind |-> "list", items |-> <<result>>]

\* The value run_node returns for the engine's first output (lines 80-82).
node_return_value(op_type, result) ==
  IF IsSliceOrPad(op_type)
    THEN [kind |-> "list", items |-> <<result>>]
    ELSE [kind |-> "ndarray", array |-> result]

\* The record of one call of run_node.  reached names the last step that
\* was entered: "convert" (line 46), "shapes" (47-58), "module" (61),
\* "bind" (62), "init_params" (65), "array" (74/76), "forward" (78),
\* "outputs" (79) or "return" (80-82).  data_shapes and data_forward are
\* the lists of those names as they are when the call ends.
Raised(origin, reached, sym, data_names, data_shapes, data_forward) ==
  [status |-> "raised", origin |-> origin, reached |-> reached, symbol |-> sym,
   data_names |-> data_names, data_shapes |-> data_shapes,
   data_forward |-> data_forward, outputs |-> <<>>, value |-> None]

\* MXNetBackend.run_node: conv_ok tells whether the converter accepts the
\* node, eng what the engine does.
run_node(node, inputs, conv_ok, eng) ==
  IF ~conv_ok THEN Raised("converter", "convert", None, <<>>, <<>>, <<>>)
  ELSE
    LET sym == graph_run_node(node)
        data_names == node.input
        built == build_data_shapes(data_names, inputs, 1, <<>>)
        data_forward == build_data_forward(node.op_type, inputs)
        result == asnumpy(eng.outputs[1])
    IN  IF built.raised
          THEN Raised("adapter", "shapes", sym, data_names, built.data_shapes, <<>>)
        ELSE IF eng.raised \in {"module", "bind", "init_params"}
          THEN Raised("engine", eng.raised, sym, data_names, built.data_shapes, <<>>)
        ELSE IF eng.raised = "array"
          THEN Raised("engine", "array", sym, data_names, built.data_shapes,
                      SubSeq(data_forward, 1, eng.index - 1))
        ELSE IF eng.raised \in {"forward", "outputs"}
          THEN Raised("engine", eng.raised, sym, data_names, built.data_shapes,
                      data_forward)
        ELSE IF Len(eng.outputs) = 0
          THEN Raised("adapter", "outputs", sym, data_names, built.data_shapes,
                      data_forward)
        ELSE [status |-> "returned", origin |-> "engine", reached |-> "return",
              symbol |-> sym, data_names |-> data_names,
              data_shapes |-> built.data_shapes, data_forward |-> data_forward,
              outputs |-> eng.outputs,
              value |-> node_return_value(node.op_type, result)]

\* ------------------------------------------- specification of run_node
InitNode ==
  /\ pc = "called"
  /\ call \in {[fn |-> "run_node", node |-> nd, inputs |-> ins] :
                 nd \in Nodes, ins \in NodeInputSeqs}
  /\ ret = None
  /\ rep = None
  /\ rep_model = None
  /\ from_onnx_calls = 0
  /\ prepare_calls = 0
  /\ run_calls = 0

RunNode ==
  /\ pc = "called"
  /\ call.fn = "run_node"
  /\ \E conv_ok \in BOOLEAN,
        eng \in EngineOutcomes(NodeEnginePoints, Len(call.inputs)) :
       ret' = run_node(call.node, call.inputs, conv_ok, eng)
  /\ pc' = "returned"
  /\ UNCHANGED <<call, rep, rep_model, from_onnx_calls, prepare_calls, run_calls>>

NextNode == RunNode

SpecNode == InitNode /\ [][NextNode]_vars

\* ------------------------------------------- prepare, run, supports_device
\* MXNetBackendRep.__init__
MXNetBackendRep(symbol, params) == [symbol |-> symbol, params |-> params]

\* MXNetBackend.prepare: device is not read.
prepare(model, device, conv_ok) ==
  IF ~conv_ok
    THEN [status |-> "raised", origin |-> "converter", value |-> None]
    ELSE LET conv == from_onnx(model)
         IN  [status |-> "returned", origin |-> "converter",
              value |-> MXNetBackendRep(conv.sym, conv.params)]

\* Variant of supports_device: the device compared without regard to case.
supports_device_any_case(device) == device \in {"CPU", "cpu"}

\* MXNetBackend.supports_device
supports_device(device) == device = "CPU"

\* The record of one call of run.  reached names the last step that was
\* entered: "asarray" (line 131), "module" (133), "bind" (134),
\* "set_params" (135), "array" (140), "forward" (140), "outputs" (141) or
\* "return" (142).  symbol, data_shapes, arg_params and data_forward are
\* what Module, bind, set_params and forward were called with (None or
\* empty for a call that was not made).
RunRaised(origin, reached, symbol, data_shapes, arg_params, data_forward) ==
  [status |-> "raised", origin |-> origin, reached |-> reached, symbol |-> symbol,
   data_shapes |-> data_shapes, arg_params |-> arg_params,
   data_forward |-> data_forward, outputs |-> <<>>, value |-> None]

\* Variant of run_input_data: the last array, not the first.
run_input_data_last(inputs) == np_asarray_float32(inputs[Len(inputs)])

\* input_data of line 131.
run_input_data(inputs) == np_asarray_float32(inputs[1])

\* Variant of run_arg_params: no parameters handed to the module.
run_arg_params_none(self) == None

\* The parameters handed to mod.set_params (line 135).
run_arg_params(self) == self.params

\* MXNetBackendRep.run: self is the handle, eng what the engine does.
run(self, inputs, eng) ==
  IF Len(inputs) = 0 THEN RunRaised("adapter", "asarray", None, <<>>, None, <<>>)
  ELSE
    LET input_data == run_input_data(inputs)
        data_shapes == << <<"input_0", input_data.shape>> >>
        data_forward == <<mx_nd_array(input_data)>>
        result == asnumpy(eng.outputs[1])
    IN  IF eng.raised = "module"
          THEN RunRaised("engine", "module", self.symbol, <<>>, None, <<>>)
        ELSE IF eng.raised = "bind"
          THEN RunRaised("engine", "bind", self.symbol, data_shapes, None, <<>>)
        ELSE IF eng.raised \in {"set_params", "array"}
          THEN RunRaised("engine", eng.raised, self.symbol, data_shapes,
                         run_arg_params(self), <<>>)
        ELSE IF eng.raised \in {"forward", "outputs"}
          THEN RunRaised("engine", eng.raised, self.symbol, data_shapes,
                         run_arg_params(self), data_forward)
        ELSE IF Len(eng.outputs) = 0
          THEN RunRaised("adapter", "outputs", self.symbol, data_shapes,
                         run_arg_params(self), data_forward)
        ELSE [status |-> "returned", origin |-> "engine", reached |-> "return",
              symbol |-> self.symbol, data_shapes |-> data_shapes,
              arg_params |-> run_arg_params(self), data_forward |-> data_forward,
              outputs |-> eng.outputs,
              value |-> [kind |-> "list", items |-> <<result>>]]

Init ==
  /\ pc = "idle"
  /\ call = NoCall
  /\ ret = None
  /\ rep = None
  /\ rep_model = None
  /\ from_onnx_calls = 0
  /\ prepare_calls = 0
  /\ run_calls = 0

\* A call of prepare: the converter runs once; the caller keeps the handle
\* returned, or the one it had when the converter raises.
Prepare ==
  /\ pc = "idle"
  /\ prepare_calls < MaxPrepares
  /\ \E model \in Models, device \in Devices, conv_ok \in BOOLEAN :
       LET r == prepare(model, device, conv_ok)
       IN  /\ call' = [fn |-> "prepare", model |-> model, device |-> device]
           /\ ret' = r
           /\ rep' = IF r.status = "returned" THEN r.value ELSE rep
           /\ rep_model' = IF r.status = "returned" THEN model ELSE rep_model
  /\ from_onnx_calls' = from_onnx_calls + 1
  /\ prepare_calls' = prepare_calls + 1
  /\ pc' = "returned"
  /\ UNCHANGED run_calls

\* A call of run on the handle the caller holds.
Run ==
  /\ pc = "idle"
  /\ rep # None
  /\ run_calls < MaxRuns
  /\ \E inputs \in RunInputSeqs, eng \in EngineOutcomes(RunEnginePoints, 1) :
       /\ call' = [fn |-> "run", inputs |-> inputs]
       /\ ret' = run(rep, inputs, eng)
  /\ run_calls' = run_calls + 1
  /\ pc' = "returned"
  /\ UNCHANGED <<rep, rep_model, from_onnx_calls, prepare_calls>>

SupportsDevice ==
  /\ pc = "idle"
  /\ \E device \in Devices :
       /\ call' = [fn |-> "supports_device", device |-> device]
       /\ ret' = [status |-> "returned", origin |-> "adapter",
                  value |-> supports_device(device)]
  /\ pc' = "returned"
  /\ UNCHANGED <<rep, rep_model, from_onnx_calls, prepare_calls, run_calls>>

\* The caller takes the value returned (or the exception) and goes on.
Return ==
  /\ pc = "returned"
  /\ call.fn # "run_node"
  /\ pc' = "idle"
  /\ call' = NoCall
  /\ ret' = None
  /\ UNCHANGED <<rep, rep_model, from_onnx_calls, prepare_calls, run_calls>>

Next == Prepare \/ Run \/ SupportsDevice \/ Return

Spec == Init /\ [][Next]_vars

\* ===================================================== claims on run_node
NodeCall == pc = "returned" /\ call.fn = "run_node"

\* The loop of lines 51-58 ended: the declared shapes are all built.
NodeDeclared == NodeCall /\ ret.reached \notin {"convert", "shapes"}

\* The arrays were handed to the forward pass.
NodeForwarded == NodeCall /\ ret.reached \in {"forward", "outputs", "return"}

Rank(a) == Len(a.shape)

\* The leading dimensions of the arrays that have one.
LeadingDims(ins) == {ins[i].shape[1] : i \in {j \in 1..Len(ins) : Rank(ins[j]) >= 1}}

\* Every array has a leading dimension and they are all equal.
UniformLeading(ins) ==
  /\ \A i \in 1..Len(ins) : Rank(ins[i]) >= 1
  /\ Cardinality(LeadingDims(ins)) <= 1

\* The literal trigger of the padding for the input at position k.
Trigger(ins, k) ==
  Rank(ins[k]) < 4 /\ Len(ins) > 1 /\ Cardinality(LeadingDims(ins)) # 1

Padded(shape) == <<1>> \o shape

DeclaredShape(k) == ret.data_shapes[k][2]

ForwardedShape(k) == ret.data_forward[k].shape

\* Some declared shape or some forwarded array differs from the input's shape.
DimensionAdded ==
  \/ \E k \in 1..Len(ret.data_shapes) : DeclaredShape(k) # call.inputs[k].shape
  \/ \E k \in 1..Len(ret.data_forward) : ForwardedShape(k) # call.inputs[k].shape

\* C1 as stated: for an operator other than Slice and Pad a dimension is
\* added (to a declared shape or to a forwarded array) exactly when two
\* inputs of rank < 4 disagree on their leading dimension, and with a single
\* input or uniform leading dimensions nothing is added anywhere.
C1_AddedExactlyOnDisagreement ==
  (NodeForwarded /\ ~IsSliceOrPad(call.node.op_type)) =>
    LET ins == call.inputs
        disagree == \E i, j \in 1..Len(ins) :
                      /\ i # j
                      /\ Rank(ins[i]) >= 1 /\ Rank(ins[i]) < 4
                      /\ Rank(ins[j]) >= 1 /\ Rank(ins[j]) < 4
                      /\ ins[i].shape[1] # ins[j].shape[1]
    IN  /\ DimensionAdded <=> disagree
        /\ (Len(ins) = 1 \/ UniformLeading(ins)) => ~DimensionAdded

\* C1 amended: for an operator other than Slice and Pad, some declared
\* shape gets the batch dimension exactly when there are at least two
\* inputs, their leading dimensions are not all equal and a named input has
\* rank < 4; with a single input or uniform leading dimensions no declared
\* shape is padded; the forwarded arrays are wrapped in one outer dimension
\* of size 1 in every such call.
C1_DeclaredPaddedOnNonUniform ==
  (NodeForwarded /\ ~IsSliceOrPad(call.node.op_type)) =>
    LET ins == call.inputs
        named == 1..Len(ret.data_shapes)
    IN  /\ (\E k \in named : DeclaredShape(k) # ins[k].shape)
             <=> (\E k \in named : Trigger(ins, k))
        /\ \A k \in named : DeclaredShape(k) \in {ins[k].shape, Padded(ins[k].shape)}
        /\ (Len(ins) = 1 \/ UniformLeading(ins)) =>
             \A k \in named : DeclaredShape(k) = ins[k].shape
        /\ Len(ret.data_forward) = Len(ins)
        /\ \A k \in 1..Len(ins) : ForwardedShape(k) = Padded(ins[k].shape)

\* An Add of two arrays with equal leading dimensions went through: nothing
\* declared is padded, both forwarded arrays are wrapped.
C1_Witness ==
  /\ NodeForwarded
  /\ call.node.op_type = "Add"
  /\ Len(call.node.input) = 2
  /\ Len(call.inputs) = 2
  /\ call.inputs[1].shape = <<2>>
  /\ call.inputs[2].shape = <<2>>
  /\ DeclaredShape(1) = <<2>>
  /\ ForwardedShape(1) = <<1, 2>>

\* C2 as stated: for Slice and Pad no batch dimension is added: every
\* declared shape and every forwarded array has the input's actual shape.
C2_SlicePadNeverPadded ==
  (NodeForwarded /\ IsSliceOrPad(call.node.op_type)) =>
    /\ \A k \in 1..Len(ret.data_shapes) : DeclaredShape(k) = call.inputs[k].shape
    /\ \A k \in 1..Len(ret.data_forward) : ForwardedShape(k) = call.inputs[k].shape

\* C2 amended: for Slice and Pad every forwarded array has the input's
\* actual shape; a declared shape equals the input's actual shape except
\* for an input of rank < 4 in a call with at least two inputs whose
\* leading dimensions are not all equal, where it is (1,) + the shape.
C2_SlicePadForwardedUnwrapped ==
  (NodeForwarded /\ IsSliceOrPad(call.node.op_type)) =>
    LET ins == call.inputs
    IN  /\ Len(ret.data_forward) = Len(ins)
        /\ \A k \in 1..Len(ins) : ForwardedShape(k) = ins[k].shape
        /\ \A k \in 1..Len(ret.data_shapes) :
             DeclaredShape(k) = IF Trigger(ins, k) THEN Padded(ins[k].shape)
                                                   ELSE ins[k].shape

\* A Slice of two arrays of rank 2 with leading dimensions 1 and 2 went
\* through: the declared shapes are padded, the forwarded arrays are not.
C2_Witness ==
  /\ NodeForwarded
  /\ call.node.op_type = "Slice"
  /\ Len(call.node.input) = 2
  /\ Len(call.inputs) = 2
  /\ call.inputs[1].shape = <<1, 2>>
  /\ call.inputs[2].shape = <<2, 2>>
  /\ DeclaredShape(1) = <<1, 1, 2>>
  /\ ForwardedShape(1) = <<1, 2>>
  /\ ForwardedShape(2) = <<2, 2>>

\* C5: a completed run_node returns a one-element list holding the engine's
\* first output for Slice and Pad, and the engine's first output itself,
\* with its shape, for every other operator.
C5_ReturnValue ==
  (NodeCall /\ ret.status = "returned") =>
    IF IsSliceOrPad(call.node.op_type)
      THEN /\ ret.value.kind = "list"
           /\ Len(ret.value.items) = 1
           /\ ret.value.items[1] = ret.outputs[1]
      ELSE /\ ret.value.kind = "ndarray"
           /\ ret.value.array = ret.outputs[1]
           /\ ret.value.array.shape = ret.outputs[1].shape

\* An Add returned the engine's first output of shape (1,2) as it is.
C5_Witness ==
  /\ NodeCall
  /\ ret.status = "returned"
  /\ call.node.op_type = "Add"
  /\ Len(call.inputs) = 2
  /\ ret.outputs[1].shape = <<1, 2>>
  /\ ret.value.kind = "ndarray"
  /\ ret.value.array.shape = <<1, 2>>

\* C6: every failure of a call is raised by the graph converter or by the
\* engine; the adapter's own shape and index logic never fails.
C6_NoAdapterFailure ==
  (pc = "returned" /\ ret.status = "raised") => ret.origin \in {"converter", "engine"}

\* C8: the declared shapes are one per input name of the node, in the
\* node's order, and the one at position k is (1,) + the input's shape iff
\* that input has rank < 4, there is more than one input and the leading
\* dimensions of all inputs are not all equal; otherwise the input's shape.
C8_DeclaredShapePerInput ==
  NodeDeclared =>
    LET ins == call.inputs
    IN  /\ Len(ret.data_shapes) = Len(call.node.input)
        /\ \A k \in 1..Len(ret.data_shapes) :
             /\ ret.data_shapes[k][1] = call.node.input[k]
             /\ Trigger(ins, k) <=> DeclaredShape(k) = Padded(ins[k].shape)
             /\ ~Trigger(ins, k) <=> DeclaredShape(k) = ins[k].shape

\* One call with leading dimensions 1 and 2: the input of rank 4 keeps its
\* shape, the input of rank 2 is padded.
C8_Witness ==
  /\ NodeDeclared
  /\ ret.reached = "return"
  /\ Len(call.node.input) = 2
  /\ Len(call.inputs) = 2
  /\ call.inputs[1].shape = <<1, 2, 2, 2>>
  /\ call.inputs[2].shape = <<2, 2>>
  /\ DeclaredShape(1) = <<1, 2, 2, 2>>
  /\ DeclaredShape(2) = <<1, 2, 2>>

\* C9: every supplied array is forwarded, in order, with its own shape for
\* Slice and Pad and with shape (1,) + its shape for every other operator,
\* whatever the declared shapes are.
C9_ForwardedArrays ==
  NodeForwarded =>
    LET ins == call.inputs
    IN  /\ Len(ret.data_forward) = Len(ins)
        /\ \A k \in 1..Len(ins) :
             /\ ret.data_forward[k].data = ins[k].data
             /\ ForwardedShape(k) = IF IsSliceOrPad(call.node.op_type)
                                      THEN ins[k].shape
                                      ELSE Padded(ins[k].shape)

\* An Add of arrays of shapes (2,) and (2,2): both are forwarded wrapped, in
\* order, the first with an unpadded declared shape.
C9_Witness ==
  /\ NodeForwarded
  /\ call.node.op_type = "Add"
  /\ Len(call.node.input) = 2
  /\ Len(call.inputs) = 2
  /\ call.inputs[1].shape = <<2>>
  /\ call.inputs[2].shape = <<2, 2>>
  /\ DeclaredShape(1) = <<2>>
  /\ ForwardedShape(1) = <<1, 2>>
  /\ ForwardedShape(2) = <<1, 2, 2>>
  /\ ret.data_forward[2].data = 2

\* C10 as stated: the forwarded arrays are as many as the declared shapes
\* and the array forwarded for input k has the shape declared for input k.
C10_ForwardedMatchesDeclared ==
  NodeForwarded =>
    /\ Len(ret.data_forward) = Len(ret.data_shapes)
    /\ \A k \in 1..Len(ret.data_shapes) : ForwardedShape(k) = DeclaredShape(k)

\* C10 amended: the forwarded arrays are as many as the supplied arrays,
\* which are at least as many as the declared shapes; the array forwarded
\* for input k has the shape declared for input k exactly when the operator
\* is neither Slice nor Pad and the declared shape is padded, or the
\* operator is Slice or Pad and the declared shape is not padded.
C10_ForwardedMatchesDeclaredIff ==
  NodeForwarded =>
    LET ins == call.inputs
    IN  /\ Len(ret.data_forward) = Len(ins)
        /\ Len(ret.data_shapes) <= Len(ret.data_forward)
        /\ \A k \in 1..Len(ret.data_shapes) :
             ForwardedShape(k) = DeclaredShape(k)
               <=> (IsSliceOrPad(call.node.op_type) <=> ~Trigger(ins, k))

\* An Add whose node names one input while two
\* arrays are supplied: one declared shape, two forwarded arrays, and the
\* forwarded shape (1,2) differs from the declared shape (2,).
C10_Witness ==
  /\ NodeForwarded
  /\ call.node.op_type = "Add"
  /\ Len(call.node.input) = 1
  /\ Len(call.inputs) = 2
  /\ call.inputs[1].shape = <<2>>
  /\ call.inputs[2].shape = <<2>>
  /\ Len(ret.data_shapes) = 1
  /\ Len(ret.data_forward) = 2
  /\ DeclaredShape(1) = <<2>>
  /\ ForwardedShape(1) = <<1, 2>>

\* ============================================ claims on prepare and run
RunCall == pc = "returned" /\ call.fn = "run"

\* The handle holds the graph and the parameters that the conversion of its
\* model produced, and a run binds that graph and loads those parameters.
C3_HandleIsConversion ==
  /\ from_onnx_calls = prepare_calls
  /\ rep # None =>
       LET conv == from_onnx(rep_model)
       IN  rep = [symbol |-> conv.sym, params |-> conv.params]
  /\ (RunCall /\ ret.reached # "asarray") =>
       ret.symbol = from_onnx(rep_model).sym
  /\ (RunCall /\ ret.reached \notin {"asarray", "module", "bind"}) =>
       ret.arg_params = from_onnx(rep_model).params

\* C3: the converter has run once per prepare and never in a run: a run,
\* however it ends, leaves the handle and the count of conversions as they
\* are; the handle holds at every point what the conversion of its model
\* produced, and every run loads exactly the stored parameters.
C3_ConvertedOnceAndReused ==
  /\ []C3_HandleIsConversion
  /\ [][(pc = "idle" /\ call'.fn = "run") =>
          (rep' = rep /\ rep_model' = rep_model /\ from_onnx_calls' = from_onnx_calls)]_vars

\* The second run on the only handle prepared returned: one conversion.
C3_Witness ==
  /\ RunCall
  /\ ret.status = "returned"
  /\ run_calls = 2
  /\ prepare_calls = 1
  /\ from_onnx_calls = 1
  /\ ret.arg_params = rep.params

\* C4: a run on a non-empty input sequence binds one data input "input_0"
\* with the shape of the first array, forwards the first array alone
\* (as float32) and returns a list of exactly the engine's first output.
C4_RunUsesFirstInput ==
  (RunCall /\ Len(call.inputs) >= 1) =>
    LET first == call.inputs[1]
    IN  /\ ret.reached # "asarray"
        /\ ret.reached # "module" =>
             ret.data_shapes = << <<"input_0", first.shape>> >>
        /\ ret.reached \in {"forward", "outputs", "return"} =>
             ret.data_forward =
               << [shape |-> first.shape, data |-> first.data, dtype |-> "float32"] >>
        /\ ret.status = "returned" =>
             /\ ret.value.kind = "list"
             /\ Len(ret.value.items) = 1
             /\ ret.value.items[1] = ret.outputs[1]

\* A run on two int64 arrays of different shapes returned while the engine
\* had two outputs.
C4_Witness ==
  /\ RunCall
  /\ ret.status = "returned"
  /\ Len(call.inputs) = 2
  /\ call.inputs[1].shape = <<2, 2>>
  /\ call.inputs[2].shape = <<1>>
  /\ call.inputs[1].dtype = "int64"
  /\ Len(ret.outputs) = 2
  /\ ret.data_shapes[1][2] = <<2, 2>>

\* C7: supports_device answers TRUE for "CPU" and FALSE for every other
\* device and changes nothing; prepare returns, for every device, the handle
\* of the conversion of its model.
C7_SupportsDeviceOnlyCPU ==
  /\ [](  (pc = "returned" /\ call.fn = "supports_device") =>
             (ret.status = "returned" /\ ret.value = (call.device = "CPU")))
  /\ [](  (pc = "returned" /\ call.fn = "prepare" /\ ret.status = "returned") =>
             /\ ret.value = [symbol |-> from_onnx(call.model).sym,
                             params |-> from_onnx(call.model).params]
             /\ rep = ret.value)
  /\ [][(pc = "idle" /\ call'.fn = "supports_device") =>
          UNCHANGED <<rep, rep_model, from_onnx_calls, prepare_calls, run_calls>>]_vars

\* supports_device("cpu") answered FALSE while a handle is held.
C7_Witness ==
  /\ pc = "returned"
  /\ call.fn = "supports_device"
  /\ call.device = "cpu"
  /\ ret.value = FALSE
  /\ rep # None

====
